---- MODULE Spec2Model ----
(***************************************************************************)
(* Bit-packing codecs for nucleotide strings (cute-nucleotides).           *)
(*                                                                         *)
(*   src/src/n_to_bits.rs   Codec-4: {A,C,G,T}, 2 bits per symbol,         *)
(*                          32 symbols per 64-bit word.                    *)
(*   src/src/n_to_bits2.rs  Codec-5: {A,C,G,T,N}, 3 symbols per 7-bit      *)
(*                          field, 9 fields (27 symbols) per 64-bit word.  *)
(*                                                                         *)
(* Every function of the two files is a pure map from an input buffer to a *)
(* freshly allocated output buffer.  The state machine below is a caller:  *)
(* it holds a symbol buffer n, a packed buffer bits and the result of the  *)
(* last call, and each action is one call of one public function.          *)
(*                                                                         *)
(* Representation.  TLC's integers are 32 bits wide, the program's words   *)
(* are not: a u64 is the sequence of its 8 bytes, least significant first, *)
(* and Bit(w, k) is bit k (0..63).  A __m256i / __m128i is the sequence of *)
(* its 32 / 16 bytes in memory order, and Byte(v, i) is byte i.  Slices    *)
(* and Vecs are sequences too, so element i of the program is element i+1  *)
(* of the sequence.                                                        *)
(***************************************************************************)
EXTENDS Integers, Sequences, FiniteSets, TLC

(***************************************************************************)
(* Bounds of the model.                                                    *)
(***************************************************************************)
\* longest symbol buffer handed to an encoder
MaxLen == 65
\* longest packed buffer of arbitrary bit patterns handed to a decoder
MaxRawWords == 2

(***************************************************************************)
(* ASCII codes of the alphabet letters (b'A' ... in the source).           *)
(***************************************************************************)
ASCII_A == 65
ASCII_C == 67
ASCII_G == 71
ASCII_T == 84
ASCII_N == 78

\* the lowercase letters (b'a' ... in the source)
ASCII_a == 97
ASCII_c == 99
ASCII_g == 103
ASCII_t == 116
ASCII_n == 110

(***************************************************************************)
(* u64 arithmetic.  A u64 is the sequence of its 8 bytes, least            *)
(* significant first.                                                      *)
(***************************************************************************)
\* bit k (0..63) of the u64 w
Bit(w, k) == (w[(k \div 8) + 1] \div (2^(k % 8))) % 2

\* the u64 whose byte j (0..7) is f[j]
Bytes64(f) == SubSeq([j \in 1..8 |-> f[j - 1]], 1, 8)

\* the u64 whose bit k (0..63) is f[k]
Bits64(f) ==
    Bytes64([j \in 0..7 |-> f[8 * j] + 2 * f[8 * j + 1] + 4 * f[8 * j + 2]
                            + 8 * f[8 * j + 3] + 16 * f[8 * j + 4] + 32 * f[8 * j + 5]
                            + 64 * f[8 * j + 6] + 128 * f[8 * j + 7]])

Zero64 == <<0, 0, 0, 0, 0, 0, 0, 0>>

\* a non-negative integer below 2^31 as a u64: `x as u64`
U64(x) == Bytes64([j \in 0..7 |-> IF j < 4 THEN (x \div (256^j)) % 256 ELSE 0])

RECURSIVE AndInt(_, _)
\* a & b on small non-negative integers (a byte, a 16-bit lane)
AndInt(a, b) ==
    IF a = 0 \/ b = 0 THEN 0
    ELSE (a % 2) * (b % 2) + 2 * AndInt(a \div 2, b \div 2)

\* a | b on small non-negative integers
OrInt(a, b) == a + b - AndInt(a, b)

\* w << s
Shl(w, s) ==
    LET q == s \div 8
        r == s % 8
        B(i) == IF i >= 0 THEN w[i + 1] ELSE 0
    IN  Bytes64([j \in 0..7 |-> ((B(j - q) * (2^r)) % 256) + (B(j - q - 1) \div (2^(8 - r)))])

\* w >> s on a u64 (logical)
Shr(w, s) ==
    LET q == s \div 8
        r == s % 8
        B(i) == IF i <= 7 THEN w[i + 1] ELSE 0
    IN  Bytes64([j \in 0..7 |-> (B(j + q) \div (2^r)) + ((B(j + q + 1) * (2^(8 - r))) % 256)])

\* w >> s on an i64 (arithmetic: the sign bit is copied in)
Sar(w, s) ==
    LET q == s \div 8
        r == s % 8
        B(i) == IF i <= 7 THEN w[i + 1] ELSE 255 * Bit(w, 63)
    IN  Bytes64([j \in 0..7 |-> (B(j + q) \div (2^r)) + ((B(j + q + 1) * (2^(8 - r))) % 256)])

\* a | b
Or64(a, b) == Bytes64([j \in 0..7 |-> OrInt(a[j + 1], b[j + 1])])

\* a & b
And64(a, b) == Bytes64([j \in 0..7 |-> AndInt(a[j + 1], b[j + 1])])

RECURSIVE LowBits(_, _, _)
\* the integer held by the nb bits of w from bit `from` up (nb <= 30)
LowBits(w, from, nb) ==
    IF nb = 0 THEN 0 ELSE Bit(w, from) + 2 * LowBits(w, from + 1, nb - 1)

\* byte j (0..7) of a u64
ByteOf(w, j) == w[j + 1]

\* the bit positions mask selects, in ascending order
SetBits(mask) == SelectSeq([k \in 1..64 |-> k - 1], LAMBDA m : Bit(mask, m) = 1)

\* BMI2 PEXT: the bits of a that mask selects, packed into the low bits
_pext_u64(a, mask) ==
    LET sel == SetBits(mask)
    IN  Bits64([k \in 0..63 |-> IF k < Len(sel) THEN Bit(a, sel[k + 1]) ELSE 0])

\* BMI2 PDEP: the low bits of a, spread to the positions mask selects
_pdep_u64(a, mask) ==
    LET sel == SetBits(mask)
    IN  Bits64([m \in 0..63 |-> IF Bit(mask, m) = 1
                                THEN Bit(a, Len(SelectSeq(sel, LAMBDA p : p < m)))
                                ELSE 0])

(***************************************************************************)
(* Vector registers.                                                       *)
(***************************************************************************)
\* byte i of the register v
Byte(v, i) == v[i + 1]

\* the __m256i whose byte i (0..31) is f[i]
Vec256(f) == SubSeq([i \in 1..32 |-> f[i - 1]], 1, 32)

\* the __m128i whose byte i (0..15) is f[i]
Vec128(f) == SubSeq([i \in 1..16 |-> f[i - 1]], 1, 16)

\* byte j of a 16- or 32-bit integer lane given as a signed integer
\* (two's complement: 0xFF1Cu16 as i16, -1, ...)
IntByte(x, j) ==
    IF x >= 0 THEN (x \div (256^j)) % 256
    ELSE 255 - (((-x - 1) \div (256^j)) % 256)

\* the 16-bit lane e (0..15) of v, as an unsigned integer
Lane16(v, e) == Byte(v, 2 * e) + 256 * Byte(v, 2 * e + 1)

\* union AlignedArray: the u64 a[j] of the register v
LaneOf(v, j) == SubSeq(v, 8 * j + 1, 8 * j + 8)

\* _mm256_loadu_si256 of the 32 bytes of the slice n at byte offset off
\* (a byte past the end of the slice is whatever lies there, ub)
_mm256_loadu_si256(n, off, ub) ==
    Vec256([i \in 0..31 |-> IF off + i < Len(n) THEN n[off + i + 1] ELSE ub])

_mm256_set1_epi8(x) == Vec256([i \in 0..31 |-> x])

_mm256_set1_epi16(x) == Vec256([i \in 0..31 |-> IntByte(x, i % 2)])

_mm256_set1_epi32(x) == Vec256([i \in 0..31 |-> IntByte(x, i % 4)])

_mm256_set1_epi64x(w) == Vec256([i \in 0..31 |-> ByteOf(w, i % 8)])

_mm256_set_epi16(e15, e14, e13, e12, e11, e10, e9, e8, e7, e6, e5, e4, e3, e2, e1, e0) ==
    LET e == <<e0, e1, e2, e3, e4, e5, e6, e7,
               e8, e9, e10, e11, e12, e13, e14, e15>>
    IN  Vec256([i \in 0..31 |-> IntByte(e[(i \div 2) + 1], i % 2)])

_mm256_set_epi32(e7, e6, e5, e4, e3, e2, e1, e0) ==
    LET e == <<e0, e1, e2, e3, e4, e5, e6, e7>>
    IN  Vec256([i \in 0..31 |-> IntByte(e[(i \div 4) + 1], i % 4)])

_mm256_set_epi64x(e3, e2, e1, e0) ==
    LET e == <<e0, e1, e2, e3>>
    IN  Vec256([i \in 0..31 |-> ByteOf(e[(i \div 8) + 1], i % 8)])

_mm256_and_si256(a, b) == Vec256([i \in 0..31 |-> AndInt(Byte(a, i), Byte(b, i))])

_mm256_or_si256(a, b) == Vec256([i \in 0..31 |-> OrInt(Byte(a, i), Byte(b, i))])

\* VPSHUFB: in each 128-bit lane, byte i is the byte of a (same lane) that
\* the low nibble of b's byte i names, or 0 when bit 7 of b's byte i is set
_mm256_shuffle_epi8(a, b) ==
    Vec256([i \in 0..31 |-> IF Byte(b, i) >= 128 THEN 0
                            ELSE Byte(a, 16 * (i \div 16) + (Byte(b, i) % 16))])

\* the low 32 bits of x * y, x and y given as 4 bytes each
Mul32(x, y) ==
    LET t0 == x[1] * y[1]
        t1 == x[1] * y[2] + x[2] * y[1] + (t0 \div 256)
        t2 == x[1] * y[3] + x[2] * y[2] + x[3] * y[1] + (t1 \div 256)
        t3 == x[1] * y[4] + x[2] * y[3] + x[3] * y[2] + x[4] * y[1] + (t2 \div 256)
    IN  <<t0 % 256, t1 % 256, t2 % 256, t3 % 256>>

\* VPMULLD: the low 32 bits of the product of each pair of 32-bit lanes
_mm256_mullo_epi32(a, b) ==
    LET prod == [j \in 1..8 |-> Mul32(SubSeq(a, 4 * j - 3, 4 * j),
                                      SubSeq(b, 4 * j - 3, 4 * j))]
    IN  Vec256([i \in 0..31 |-> prod[(i \div 4) + 1][(i % 4) + 1]])

\* VPSRLW: each 16-bit lane shifted right by imm8 bits
_mm256_srli_epi16(a, imm8) ==
    Vec256([i \in 0..31 |-> ((Lane16(a, i \div 2) \div (2^imm8)) \div (256^(i % 2))) % 256])

\* VPBLENDW: in each 128-bit lane, 16-bit lane e comes from b when bit e of
\* imm8 is set, from a otherwise
_mm256_blend_epi16(a, b, imm8) ==
    Vec256([i \in 0..31 |-> IF (imm8 \div (2^((i \div 2) % 8))) % 2 = 1
                            THEN Byte(b, i) ELSE Byte(a, i)])

\* VPERMD: 32-bit lane k is the lane of a that the low 3 bits of idx's
\* lane k name
_mm256_permutevar8x32_epi32(a, idx) ==
    Vec256([i \in 0..31 |-> Byte(a, 4 * (Byte(idx, 4 * (i \div 4)) % 8) + (i % 4))])

\* the register whose 16-bit lane e (0..15) is f[e]
Lanes16(f) == Vec256([i \in 0..31 |-> (f[i \div 2] \div (256^(i % 2))) % 256])

\* the low 16 bits of x * y, x and y 16-bit unsigned
MulLo16(x, y) ==
    ((x % 256) * (y % 256)
     + 256 * (((x \div 256) * (y % 256) + (x % 256) * (y \div 256)) % 256)) % 65536

\* the high 16 bits of x * y, x and y 16-bit unsigned
MulHi16(x, y) ==
    LET mid == (x \div 256) * (y % 256) + (x % 256) * (y \div 256)
               + (((x % 256) * (y % 256)) \div 256)
    IN  ((x \div 256) * (y \div 256) + (mid \div 256)) % 65536

\* VPMULLW
_mm256_mullo_epi16(a, b) == Lanes16([e \in 0..15 |-> MulLo16(Lane16(a, e), Lane16(b, e))])

\* VPMULHUW
_mm256_mulhi_epu16(a, b) == Lanes16([e \in 0..15 |-> MulHi16(Lane16(a, e), Lane16(b, e))])

\* VPADDW (wrapping)
_mm256_add_epi16(a, b) == Lanes16([e \in 0..15 |-> (Lane16(a, e) + Lane16(b, e)) % 65536])

\* VPSUBW (wrapping)
_mm256_sub_epi16(a, b) ==
    Lanes16([e \in 0..15 |-> (Lane16(a, e) - Lane16(b, e) + 65536) % 65536])

\* VPSLLW: each 16-bit lane shifted left by imm8 bits
_mm256_slli_epi16(a, imm8) == Lanes16([e \in 0..15 |-> (Lane16(a, e) * (2^imm8)) % 65536])

(***************************************************************************)
(* 128-bit registers (bits_to_n_clmul).                                    *)
(***************************************************************************)
_mm_set1_epi8(x) == Vec128([i \in 0..15 |-> x])

_mm_set1_epi32(x) == Vec128([i \in 0..15 |-> IntByte(x, i % 4)])

_mm_set1_epi64x(w) == Vec128([i \in 0..15 |-> ByteOf(w, i % 8)])

_mm_set_epi32(e3, e2, e1, e0) ==
    LET e == <<e0, e1, e2, e3>>
    IN  Vec128([i \in 0..15 |-> IntByte(e[(i \div 4) + 1], i % 4)])

_mm_set_epi64x(e1, e0) ==
    LET e == <<e0, e1>>
    IN  Vec128([i \in 0..15 |-> ByteOf(e[(i \div 8) + 1], i % 8)])

_mm_and_si128(a, b) == Vec128([i \in 0..15 |-> AndInt(Byte(a, i), Byte(b, i))])

\* PSHUFB: byte i is the byte of a that the low nibble of b's byte i names,
\* or 0 when bit 7 of b's byte i is set
_mm_shuffle_epi8(a, b) ==
    Vec128([i \in 0..15 |-> IF Byte(b, i) >= 128 THEN 0 ELSE Byte(a, Byte(b, i) % 16)])

\* PCLMULQDQ: the carry-less (XOR) product of one quadword of a (the high
\* one when bit 0 of imm8 is set) and one quadword of b (the high one when
\* bit 4 of imm8 is set); the other bits of imm8 are ignored
_mm_clmulepi64_si128(a, b, imm8) ==
    LET qa == 64 * ((imm8 \div 1) % 2)
        qb == 64 * ((imm8 \div 16) % 2)
        x == SubSeq(a, (qa \div 8) + 1, (qa \div 8) + 8)
        y == SubSeq(b, (qb \div 8) + 1, (qb \div 8) + 8)
        ones == {j \in 0..63 : Bit(y, j) = 1}
        bit(i) == Cardinality({j \in ones : i - j >= 0 /\ i - j <= 63
                                            /\ Bit(x, i - j) = 1}) % 2
    IN  Vec128([i \in 0..15 |-> bit(8 * i) + 2 * bit(8 * i + 1) + 4 * bit(8 * i + 2)
                                + 8 * bit(8 * i + 3) + 16 * bit(8 * i + 4)
                                + 32 * bit(8 * i + 5) + 64 * bit(8 * i + 6)
                                + 128 * bit(8 * i + 7)])

\* MOVLHPS: the low quadword of a, then the low quadword of b
_mm_movelh_ps(a, b) == Vec128([i \in 0..15 |-> IF i < 8 THEN Byte(a, i) ELSE Byte(b, i - 8)])

(***************************************************************************)
(* Output buffers: alloc::alloc, writes through the raw pointer, and       *)
(* Vec::from_raw_parts.                                                    *)
(***************************************************************************)
\* the content of a cell that was allocated and never written
Uninit == 0 - 1

\* alloc::alloc(Layout(size, _)): size cells (bytes or words), none written
\* (oob: a write left the allocation; rd: a read left the input buffer)
Alloc(size) ==
    [cells |-> SubSeq([j \in 1..size |-> Uninit], 1, size), oob |-> FALSE,
     rd |-> FALSE]

\* *ptr.offset(idx) = x; a write outside the allocation is recorded in oob
Store(mem, idx, x) ==
    IF idx >= 0 /\ idx < Len(mem.cells)
    THEN [mem EXCEPT !.cells[idx + 1] = x]
    ELSE [mem EXCEPT !.oob = TRUE]

\* _mm256_store_si256 / _mm256_storeu_si256 / _mm_store_si128 of the
\* register v at byte offset off
StoreVec(mem, off, v) ==
    [cells |-> SubSeq([j \in 1..Len(mem.cells) |->
                           IF j - 1 >= off /\ j - 1 < off + Len(v)
                           THEN v[j - off] ELSE mem.cells[j]],
                      1, Len(mem.cells)),
     oob |-> mem.oob \/ off + Len(v) > Len(mem.cells),
     rd |-> mem.rd]

\* a read of size elements at offset off of the input buffer buf:
\* *bits.get_unchecked(i), *n.get_unchecked(i), _mm256_loadu_si256(ptr);
\* a read outside the buffer is recorded in rd
Load(mem, buf, off, size) ==
    [mem EXCEPT !.rd = @ \/ off < 0 \/ off + size > Len(buf)]

\* what a decoder returns: Vec::from_raw_parts(ptr, len, cap) over the
\* allocation mem
FromRawParts(mem, len, cap) ==
    [panicked |-> FALSE, allocs |-> 1, size |-> Len(mem.cells),
     vec |-> SubSeq(mem.cells, 1, len), cap |-> cap, oob |-> mem.oob,
     rd |-> mem.rd]

\* panic!("The length is greater than the number of nucleotides!")
Panic ==
    [panicked |-> TRUE, allocs |-> 0, size |-> 0, vec |-> <<>>, cap |-> 0,
     oob |-> FALSE, rd |-> FALSE]

(***************************************************************************)
(* Codec-4 (n_to_bits.rs).                                                 *)
(***************************************************************************)
\* BYTE_LUT without the lowercase entries
BYTE_LUT_uppercase_only ==
    [b \in 0..127 |->
        CASE b = 97  -> \b00   \* b'a'
          [] b = 116 -> \b00   \* b't'
          [] b = 99  -> \b00   \* b'c'
          [] b = 103 -> \b00   \* b'g'
          [] b = ASCII_A -> \b00
          [] b = ASCII_T -> \b10
          [] b = ASCII_C -> \b01
          [] b = ASCII_G -> \b11
          [] OTHER -> 0]

BYTE_LUT ==
    [b \in 0..127 |->
        CASE b = 97  -> \b00   \* b'a'
          [] b = 116 -> \b10   \* b't'
          [] b = 99  -> \b01   \* b'c'
          [] b = 103 -> \b11   \* b'g'
          [] b = ASCII_A -> \b00
          [] b = ASCII_T -> \b10
          [] b = ASCII_C -> \b01
          [] b = ASCII_G -> \b11
          [] OTHER -> 0]

\* BITS_LUT with the letters in the order A, C, G, T
BITS_LUT_in_letter_order ==
    [c \in 0..3 |->
        CASE c = \b00 -> ASCII_A
          [] c = \b10 -> ASCII_G
          [] c = \b01 -> ASCII_C
          [] c = \b11 -> ASCII_T]

BITS_LUT ==
    [c \in 0..3 |->
        CASE c = \b00 -> ASCII_A
          [] c = \b10 -> ASCII_T
          [] c = \b01 -> ASCII_C
          [] c = \b11 -> ASCII_G]

\* *BYTE_LUT.get_unchecked(b as usize): an index past the 128 entries reads
\* the byte that lies there in memory, whatever it is (ub)
ByteLutGet(b, ub) == IF b \in DOMAIN BYTE_LUT THEN BYTE_LUT[b] ELSE ub

\* some byte of the slice s, used as an index of the 128-entry BYTE_LUT of
\* either file, is past the end of the table
PastByteLut(s) == \E i \in 1..Len(s) : s[i] >= 128

\* the length of the Vec<u64> the Codec-4 encoders return:
\* (n.len() >> 5) + if n.len() & 31 == 0 {0} else {1}
WordCount4(nlen) == (nlen \div 32) + (IF nlen % 32 = 0 THEN 0 ELSE 1)

\* n_to_bits_lut_step with the shift (i & 31), one bit per symbol
n_to_bits_lut_step_one_bit(n, i, res, ub) ==
    LET offset == i \div 32            \* i >> 5
        shift  == i % 32
    IN  [res EXCEPT ![offset + 1] =
            Or64(res[offset + 1], Shl(U64(ByteLutGet(n[i + 1], ub)), shift))]

\* the body of n_to_bits_lut's loop
n_to_bits_lut_step(n, i, res, ub) ==
    LET offset == i \div 32            \* i >> 5
        shift  == (i % 32) * 2         \* (i & 31) << 1
    IN  [res EXCEPT ![offset + 1] =
            Or64(res[offset + 1], Shl(U64(ByteLutGet(n[i + 1], ub)), shift))]

\* for i in 0..n.len(): the iterations lo..hi-1 in order, the first half of the
\* range run to its value before the second half starts on it
RECURSIVE n_to_bits_lut_loop(_, _, _, _, _)
n_to_bits_lut_loop(n, ub, lo, hi, res) ==
    IF hi <= lo THEN res
    ELSE IF hi = lo + 1 THEN n_to_bits_lut_step(n, lo, res, ub)
    ELSE LET mid == (lo + hi) \div 2
             first == {n_to_bits_lut_loop(n, ub, lo, mid, res)}
         IN  CHOOSE r \in {n_to_bits_lut_loop(n, ub, mid, hi, m) : m \in first} : TRUE

n_to_bits_lut(n, ub) ==
    n_to_bits_lut_loop(n, ub, 0, Len(n), [j \in 1..WordCount4(Len(n)) |-> Zero64])

\* the body of bits_to_n_lut's loop
bits_to_n_lut_step(bits, i, mem) ==
    LET offset == i \div 32
        shift  == (i % 32) * 2
        curr   == bits[offset + 1]
    IN  Store(Load(mem, bits, offset, 1), i,
              BITS_LUT[LowBits(And64(Shr(curr, shift), U64(\b11)), 0, 8)])

\* for i in 0..len: the iterations lo..hi-1 in order, the first half of the
\* range run to its value before the second half starts on it
RECURSIVE bits_to_n_lut_loop(_, _, _, _)
bits_to_n_lut_loop(bits, lo, hi, mem) ==
    IF hi <= lo THEN mem
    ELSE IF hi = lo + 1 THEN bits_to_n_lut_step(bits, lo, mem)
    ELSE LET mid == (lo + hi) \div 2
             first == {bits_to_n_lut_loop(bits, lo, mid, mem)}
         IN  CHOOSE r \in {bits_to_n_lut_loop(bits, mid, hi, m) : m \in first} : TRUE

bits_to_n_lut(bits, len) ==
    IF len > Len(bits) * 32 THEN Panic
    ELSE FromRawParts(bits_to_n_lut_loop(bits, 0, len, Alloc(len)), len, len)

\* the tail of the accelerated encoders:
\* *res_ptr.offset(end_idx) = *n_to_bits_lut(&n[(end_idx << 5)..]).get_unchecked(0)
EncodeTail4(n, end_idx, mem, ub) ==
    IF Len(n) % 32 > 0
    THEN Store(mem, end_idx,
               n_to_bits_lut(SubSeq(n, end_idx * 32 + 1, Len(n)), ub)[1])
    ELSE mem

\* what n_to_bits_pext and n_to_bits_mul do with n: end_idx iterations of
\* the vector loop, and &n[(end_idx << 5)..] for n_to_bits_lut if
\* n.len() & 31 > 0
Path4(n) ==
    [blocks |-> Len(n) \div 32,
     scalar |-> Len(n) % 32 > 0,
     end |-> IF Len(n) % 32 > 0
             THEN SubSeq(n, (Len(n) \div 32) * 32 + 1, Len(n)) ELSE <<>>]

\* n_to_bits_pext_step with the lanes c and d combined in the wrong order
n_to_bits_pext_step_lanes_swapped(n, i, mem, ub) ==
    LET ascii_mask == <<6, 6, 6, 6, 6, 6, 6, 6>> \* 0x0606060606060606
        arr == _mm256_loadu_si256(n, 32 * i, ub)
        a == _pext_u64(LaneOf(arr, 0), ascii_mask)
        b == _pext_u64(LaneOf(arr, 1), ascii_mask)
        c == _pext_u64(LaneOf(arr, 2), ascii_mask)
        d == _pext_u64(LaneOf(arr, 3), ascii_mask)
    IN  Store(Load(mem, n, 32 * i, 32), i,
              Or64(Or64(Or64(a, Shl(b, 16)), Shl(c, 48)), Shl(d, 32)))

\* the body of n_to_bits_pext's loop
n_to_bits_pext_step(n, i, mem, ub) ==
    LET ascii_mask == <<6, 6, 6, 6, 6, 6, 6, 6>> \* 0x0606060606060606
        arr == _mm256_loadu_si256(n, 32 * i, ub)
        a == _pext_u64(LaneOf(arr, 0), ascii_mask)
        b == _pext_u64(LaneOf(arr, 1), ascii_mask)
        c == _pext_u64(LaneOf(arr, 2), ascii_mask)
        d == _pext_u64(LaneOf(arr, 3), ascii_mask)
    IN  Store(Load(mem, n, 32 * i, 32), i,
              Or64(Or64(Or64(a, Shl(b, 16)), Shl(c, 32)), Shl(d, 48)))

\* for i in 0..end_idx
\* (each iteration's stores are made before the next iteration runs)
RECURSIVE n_to_bits_pext_loop(_, _, _, _, _)
n_to_bits_pext_loop(n, ub, end_idx, i, mem) ==
    IF i >= end_idx THEN mem
    ELSE LET stored == {n_to_bits_pext_step(n, i, mem, ub)}
         IN  CHOOSE r \in {n_to_bits_pext_loop(n, ub, end_idx, i + 1, m) : m \in stored} : TRUE

n_to_bits_pext(n, ub) ==
    LET end_idx == Len(n) \div 32
        len == WordCount4(Len(n))
        body == n_to_bits_pext_loop(n, ub, end_idx, 0, Alloc(len))
    IN  EncodeTail4(n, end_idx, body, ub)

\* the body of n_to_bits_mul's loop
n_to_bits_mul_step(n, i, mem, ub) ==
    LET ascii_mask == _mm256_set1_epi8(\b00000110)
        \* 1 << (length - input byte offset + output bit offset - 1)
        m == 2^(32 - 8 + 0 - 1) + 2^(32 - 16 + 2 - 1)
             + 2^(32 - 24 + 4 - 1) + 2^(32 - 32 + 6 - 1)
        mul_mask == _mm256_set1_epi32(m)
        shuffle_mask == _mm256_set_epi32(-1, -1, -1, \h0F0B0703,
                                         -1, -1, -1, \h0F0B0703)
        v0 == _mm256_loadu_si256(n, 32 * i, ub)
        v1 == _mm256_and_si256(v0, ascii_mask)
        v2 == _mm256_mullo_epi32(v1, mul_mask)
        arr == _mm256_shuffle_epi8(v2, shuffle_mask)
    IN  Store(Load(mem, n, 32 * i, 32), i,
              Or64(LaneOf(arr, 0), Shl(LaneOf(arr, 2), 32)))

\* for i in 0..end_idx
\* (each iteration's stores are made before the next iteration runs)
RECURSIVE n_to_bits_mul_loop(_, _, _, _, _)
n_to_bits_mul_loop(n, ub, end_idx, i, mem) ==
    IF i >= end_idx THEN mem
    ELSE LET stored == {n_to_bits_mul_step(n, i, mem, ub)}
         IN  CHOOSE r \in {n_to_bits_mul_loop(n, ub, end_idx, i + 1, m) : m \in stored} : TRUE

n_to_bits_mul(n, ub) ==
    LET end_idx == Len(n) \div 32
        len == WordCount4(Len(n))
        body == n_to_bits_mul_loop(n, ub, end_idx, 0, Alloc(len))
    IN  EncodeTail4(n, end_idx, body, ub)

\* (b'A') | (b'C' << 8) | (b'T' << 16) | (b'G' << 24)
lut_i32 == ASCII_A + ASCII_C * (2^8) + ASCII_T * (2^16) + ASCII_G * (2^24)

\* the body of bits_to_n_shuffle's loop
bits_to_n_shuffle_step(bits, i, mem) ==
    LET shuffle_mask == _mm256_set_epi32(\h07070707, \h06060606, \h05050505,
                            \h04040404, \h03030303, \h02020202, \h01010101, 0)
        lo_mask == _mm256_set1_epi16(\b0000110000000011)
        lut == _mm256_set_epi32(ASCII_G, ASCII_T, ASCII_C, lut_i32,
                                ASCII_G, ASCII_T, ASCII_C, lut_i32)
        curr == bits[i + 1]
        v  == _mm256_set1_epi64x(curr)
        v1 == _mm256_shuffle_epi8(v, shuffle_mask)
        v2 == _mm256_srli_epi16(v1, 4)
        v3 == _mm256_blend_epi16(v1, v2, \b10101010)
        v4 == _mm256_and_si256(v3, lo_mask)
        v5 == _mm256_shuffle_epi8(lut, v4)
    IN  StoreVec(Load(mem, bits, i, 1), 32 * i, v5)

\* for i in 0..bits.len()
\* (each iteration's stores are made before the next iteration runs)
RECURSIVE bits_to_n_shuffle_loop(_, _, _)
bits_to_n_shuffle_loop(bits, i, mem) ==
    IF i >= Len(bits) THEN mem
    ELSE LET stored == {bits_to_n_shuffle_step(bits, i, mem)}
         IN  CHOOSE r \in {bits_to_n_shuffle_loop(bits, i + 1, m) : m \in stored} : TRUE

\* bits_to_n_shuffle with the check len >= (bits.len() << 5)
bits_to_n_shuffle_rejects_full(bits, len) ==
    IF len >= Len(bits) * 32 THEN Panic
    ELSE FromRawParts(bits_to_n_shuffle_loop(bits, 0, Alloc(Len(bits) * 32)),
                      len, Len(bits) * 32)

bits_to_n_shuffle(bits, len) ==
    IF len > Len(bits) * 32 THEN Panic
    ELSE FromRawParts(bits_to_n_shuffle_loop(bits, 0, Alloc(Len(bits) * 32)),
                      len, Len(bits) * 32)

\* the body of bits_to_n_pdep's loop
bits_to_n_pdep_step(bits, i, mem) ==
    LET scatter_mask == <<3, 3, 3, 3, 3, 3, 3, 3>> \* 0x0303030303030303
        lut == _mm256_set_epi32(0, 0, 0, lut_i32, 0, 0, 0, lut_i32)
        curr == bits[i + 1]
        a == _pdep_u64(curr, scatter_mask)
        b == _pdep_u64(Shr(curr, 16), scatter_mask)
        c == _pdep_u64(Shr(curr, 32), scatter_mask)
        d == _pdep_u64(Shr(curr, 48), scatter_mask)
        v  == _mm256_set_epi64x(d, c, b, a)
        v1 == _mm256_shuffle_epi8(lut, v)
    IN  StoreVec(Load(mem, bits, i, 1), 32 * i, v1)

\* for i in 0..bits.len()
\* (each iteration's stores are made before the next iteration runs)
RECURSIVE bits_to_n_pdep_loop(_, _, _)
bits_to_n_pdep_loop(bits, i, mem) ==
    IF i >= Len(bits) THEN mem
    ELSE LET stored == {bits_to_n_pdep_step(bits, i, mem)}
         IN  CHOOSE r \in {bits_to_n_pdep_loop(bits, i + 1, m) : m \in stored} : TRUE

bits_to_n_pdep(bits, len) ==
    IF len > Len(bits) * 32 THEN Panic
    ELSE FromRawParts(bits_to_n_pdep_loop(bits, 0, Alloc(Len(bits) * 32)),
                      len, Len(bits) * 32)

\* bits_to_n_clmul_step with the second carry-less product taken of the
\* low quadword again (imm8 0x00)
bits_to_n_clmul_step_low_twice(bits, i, mem) ==
    LET \* 0xFFFFFF03u32 as i32, ... : byte k of the word, then three 0xFF
        lo_shuffle_mask == _mm_set_epi32(\h03 - 256, \h02 - 256, \h01 - 256, \h00 - 256)
        hi_shuffle_mask == _mm_set_epi32(\h07 - 256, \h06 - 256, \h05 - 256, \h04 - 256)
        \* 1 << (byte offset - bit offset)
        m == 2^(0 - 0) + 2^(8 - 2) + 2^(16 - 4) + 2^(24 - 6)
        mul_mask == _mm_set_epi64x(Zero64, U64(m))
        lo_mask == _mm_set1_epi8(\b00000011)
        lut == _mm_set1_epi32(lut_i32)
        curr == bits[i + 1]
        v == _mm_set1_epi64x(curr)
        lo_v == _mm_shuffle_epi8(v, lo_shuffle_mask)
        hi_v == _mm_shuffle_epi8(v, hi_shuffle_mask)
        lo_v1 == _mm_clmulepi64_si128(lo_v, mul_mask, \h00)
        lo_v2 == _mm_clmulepi64_si128(lo_v, mul_mask, \h00)
        hi_v1 == _mm_clmulepi64_si128(hi_v, mul_mask, \h00)
        hi_v2 == _mm_clmulepi64_si128(hi_v, mul_mask, \h0F)
        lo_v3 == _mm_movelh_ps(lo_v1, lo_v2)
        hi_v3 == _mm_movelh_ps(hi_v1, hi_v2)
        lo_v4 == _mm_and_si128(lo_v3, lo_mask)
        hi_v4 == _mm_and_si128(hi_v3, lo_mask)
        lo_v5 == _mm_shuffle_epi8(lut, lo_v4)
        hi_v5 == _mm_shuffle_epi8(lut, hi_v4)
    IN  StoreVec(StoreVec(Load(mem, bits, i, 1), 16 * (2 * i), lo_v5),
                 16 * (2 * i + 1), hi_v5)

\* the body of bits_to_n_clmul's loop
bits_to_n_clmul_step(bits, i, mem) ==
    LET \* 0xFFFFFF03u32 as i32, ... : byte k of the word, then three 0xFF
        lo_shuffle_mask == _mm_set_epi32(\h03 - 256, \h02 - 256, \h01 - 256, \h00 - 256)
        hi_shuffle_mask == _mm_set_epi32(\h07 - 256, \h06 - 256, \h05 - 256, \h04 - 256)
        \* 1 << (byte offset - bit offset)
        m == 2^(0 - 0) + 2^(8 - 2) + 2^(16 - 4) + 2^(24 - 6)
        mul_mask == _mm_set_epi64x(Zero64, U64(m))
        lo_mask == _mm_set1_epi8(\b00000011)
        lut == _mm_set1_epi32(lut_i32)
        curr == bits[i + 1]
        v == _mm_set1_epi64x(curr)
        lo_v == _mm_shuffle_epi8(v, lo_shuffle_mask)
        hi_v == _mm_shuffle_epi8(v, hi_shuffle_mask)
        lo_v1 == _mm_clmulepi64_si128(lo_v, mul_mask, \h00)
        lo_v2 == _mm_clmulepi64_si128(lo_v, mul_mask, \h0F)
        hi_v1 == _mm_clmulepi64_si128(hi_v, mul_mask, \h00)
        hi_v2 == _mm_clmulepi64_si128(hi_v, mul_mask, \h0F)
        lo_v3 == _mm_movelh_ps(lo_v1, lo_v2)
        hi_v3 == _mm_movelh_ps(hi_v1, hi_v2)
        lo_v4 == _mm_and_si128(lo_v3, lo_mask)
        hi_v4 == _mm_and_si128(hi_v3, lo_mask)
        lo_v5 == _mm_shuffle_epi8(lut, lo_v4)
        hi_v5 == _mm_shuffle_epi8(lut, hi_v4)
    IN  StoreVec(StoreVec(Load(mem, bits, i, 1), 16 * (2 * i), lo_v5),
                 16 * (2 * i + 1), hi_v5)

\* for i in 0..bits.len()
\* (each iteration's stores are made before the next iteration runs)
RECURSIVE bits_to_n_clmul_loop(_, _, _)
bits_to_n_clmul_loop(bits, i, mem) ==
    IF i >= Len(bits) THEN mem
    ELSE LET stored == {bits_to_n_clmul_step(bits, i, mem)}
         IN  CHOOSE r \in {bits_to_n_clmul_loop(bits, i + 1, m) : m \in stored} : TRUE

bits_to_n_clmul(bits, len) ==
    IF len > Len(bits) * 32 THEN Panic
    ELSE FromRawParts(bits_to_n_clmul_loop(bits, 0, Alloc(Len(bits) * 32)),
                      len, Len(bits) * 32)

(***************************************************************************)
(* Codec-5 (n_to_bits2.rs).  Its tables are BYTE_LUT and BITS_LUT there.   *)
(***************************************************************************)
BYTE_LUT2 ==
    [b \in 0..127 |->
        CASE b = 97  -> \b000   \* b'a'
          [] b = 99  -> \b001   \* b'c'
          [] b = 116 -> \b010   \* b't'
          [] b = 103 -> \b011   \* b'g'
          [] b = 110 -> \b100   \* b'n'
          [] b = ASCII_A -> \b000
          [] b = ASCII_C -> \b001
          [] b = ASCII_T -> \b010
          [] b = ASCII_G -> \b011
          [] b = ASCII_N -> \b100
          [] OTHER -> 0]

BITS_LUT2 ==
    [c \in 0..4 |->
        CASE c = \b000 -> ASCII_A
          [] c = \b001 -> ASCII_C
          [] c = \b010 -> ASCII_T
          [] c = \b011 -> ASCII_G
          [] c = \b100 -> ASCII_N]

\* *BYTE_LUT.get_unchecked(b as usize): an index past the 128 entries reads
\* the byte that lies there in memory, whatever it is (ub)
ByteLut2Get(b, ub) == IF b \in DOMAIN BYTE_LUT2 THEN BYTE_LUT2[b] ELSE ub

\* *BITS_LUT.get_unchecked(c): an index past the 5 entries reads the byte
\* that follows the table in memory, whatever it is (ub)
BitsLut2Get(c, ub) == IF c \in DOMAIN BITS_LUT2 THEN BITS_LUT2[c] ELSE ub

\* the length of the Vec<u64> the Codec-5 encoders return:
\* (n.len() / 27) + if n.len() % 27 == 0 {0} else {1}
WordCount5(nlen) == (nlen \div 27) + (IF nlen % 27 = 0 THEN 0 ELSE 1)

\* n_to_bits2_lut_step with fields of 8 bits
n_to_bits2_lut_step_byte_fields(n, i, res, ub) ==
    LET idx == i * 3
        res_offset == i \div 9
        res_shift == (i % 9) * 8
        a == ByteLut2Get(n[idx + 1], ub)
        b == ByteLut2Get(n[idx + 2], ub) * 5
        c == ByteLut2Get(n[idx + 3], ub) * 25
        encoding == U64((a + b + c) % 256)
    IN  [res EXCEPT ![res_offset + 1] =
            Or64(res[res_offset + 1], Shl(encoding, res_shift))]

\* the body of n_to_bits2_lut's loop over the whole triplets
n_to_bits2_lut_step(n, i, res, ub) ==
    LET idx == i * 3
        res_offset == i \div 9
        res_shift == (i % 9) * 7
        a == ByteLut2Get(n[idx + 1], ub)
        b == ByteLut2Get(n[idx + 2], ub) * 5
        c == ByteLut2Get(n[idx + 3], ub) * 25
        encoding == U64((a + b + c) % 256)
    IN  [res EXCEPT ![res_offset + 1] =
            Or64(res[res_offset + 1], Shl(encoding, res_shift))]

\* for i in 0..len: the iterations lo..hi-1 in order, the first half of the
\* range run to its value before the second half starts on it
RECURSIVE n_to_bits2_lut_loop(_, _, _, _, _)
n_to_bits2_lut_loop(n, ub, lo, hi, res) ==
    IF hi <= lo THEN res
    ELSE IF hi = lo + 1 THEN n_to_bits2_lut_step(n, lo, res, ub)
    ELSE LET mid == (lo + hi) \div 2
             first == {n_to_bits2_lut_loop(n, ub, lo, mid, res)}
         IN  CHOOSE r \in {n_to_bits2_lut_loop(n, ub, mid, hi, m) : m \in first} : TRUE

\* n_to_bits2_lut without a final triplet of one symbol
n_to_bits2_lut_pairs_only(n, ub) ==
    LET len == Len(n) \div 3
        full == n_to_bits2_lut_loop(n, ub, 0, len,
                                   [j \in 1..WordCount5(Len(n)) |-> Zero64])
        leftover == Len(n) % 3
    IN  IF leftover > 1
        THEN LET idx == len * 3
                 res_offset == len \div 9
                 res_shift == (len % 9) * 7
                 a == ByteLut2Get(n[idx + 1], ub)
                 b == IF leftover >= 2 THEN ByteLut2Get(n[idx + 2], ub) * 5 ELSE 0
                 encoding == U64((a + b) % 256)
             IN  [full EXCEPT ![res_offset + 1] =
                     Or64(full[res_offset + 1], Shl(encoding, res_shift))]
        ELSE full

n_to_bits2_lut(n, ub) ==
    LET len == Len(n) \div 3
        full == n_to_bits2_lut_loop(n, ub, 0, len,
                                   [j \in 1..WordCount5(Len(n)) |-> Zero64])
        leftover == Len(n) % 3
    IN  IF leftover > 0
        THEN LET idx == len * 3
                 res_offset == len \div 9
                 res_shift == (len % 9) * 7
                 a == ByteLut2Get(n[idx + 1], ub)
                 b == IF leftover >= 2 THEN ByteLut2Get(n[idx + 2], ub) * 5 ELSE 0
                 encoding == U64((a + b) % 256)
             IN  [full EXCEPT ![res_offset + 1] =
                     Or64(full[res_offset + 1], Shl(encoding, res_shift))]
        ELSE full

\* the body of bits_to_n2_lut's loop over the triplets
bits_to_n2_lut_step(bits, i, mem, ub) ==
    LET idx == i * 3
        offset == i \div 9
        shift == (i % 9) * 7
        curr == LowBits(And64(Shr(bits[offset + 1], shift), U64(\b01111111)), 0, 8)
        a == curr % 5
        b == (curr \div 5) % 5
        c == curr \div 25
    IN  Store(Store(Store(Load(mem, bits, offset, 1), idx, BitsLut2Get(a, ub)),
                    idx + 1, BitsLut2Get(b, ub)),
              idx + 2, BitsLut2Get(c, ub))

\* for i in 0..triplets: the iterations lo..hi-1 in order, the first half of the
\* range run to its value before the second half starts on it
RECURSIVE bits_to_n2_lut_loop(_, _, _, _, _)
bits_to_n2_lut_loop(bits, ub, lo, hi, mem) ==
    IF hi <= lo THEN mem
    ELSE IF hi = lo + 1 THEN bits_to_n2_lut_step(bits, lo, mem, ub)
    ELSE LET mid == (lo + hi) \div 2
             first == {bits_to_n2_lut_loop(bits, ub, lo, mid, mem)}
         IN  CHOOSE r \in {bits_to_n2_lut_loop(bits, ub, mid, hi, m) : m \in first} : TRUE

\* bits_to_n2_lut with an allocation of len bytes
bits_to_n2_lut_exact_alloc(bits, len, ub) ==
    IF len > Len(bits) * 27 THEN Panic
    ELSE LET triplets == (len \div 3) + (IF len % 3 = 0 THEN 0 ELSE 1)
         IN  FromRawParts(
                 bits_to_n2_lut_loop(bits, ub, 0, triplets, Alloc(len)),
                 len, len)

bits_to_n2_lut(bits, len, ub) ==
    IF len > Len(bits) * 27 THEN Panic
    ELSE LET triplets == (len \div 3) + (IF len % 3 = 0 THEN 0 ELSE 1)
         IN  FromRawParts(
                 bits_to_n2_lut_loop(bits, ub, 0, triplets, Alloc(Len(bits) * 27)),
                 len, Len(bits) * 27)

\* let mul5 = _mm256_set1_epi16(5), in n_to_bits2_pext and bits_to_n2_pdep
mul5 == _mm256_set1_epi16(5)

\* div5 with the reciprocal of 5 rounded down: (1u32 << 16) / 5
div5_rounded_down == _mm256_set1_epi16((2^16) \div 5)

\* let div5 = _mm256_set1_epi16(((1u32 << 16) / 5 + 1) as i16)
div5 == _mm256_set1_epi16(((2^16) \div 5) + 1)

\* div25 with the reciprocal of 25 rounded down: (1u32 << 16) / 25
div25_rounded_down == _mm256_set1_epi16((2^16) \div 25)

\* let div25 = _mm256_set1_epi16(((1u32 << 16) / 25 + 1) as i16)
div25 == _mm256_set1_epi16(((2^16) \div 25) + 1)

\* n_to_bits2_pext_step with the third lane shifted by 36
n_to_bits2_pext_step_wide_gap(n, i, mem, ub) ==
    LET lut == _mm256_set1_epi64x(
                   Or64(Or64(Or64(Or64(
                       Shl(U64(\b000), AndInt(ASCII_A, \b111) * 8),
                       Shl(U64(\b001), AndInt(ASCII_C, \b111) * 8)),
                       Shl(U64(\b010), AndInt(ASCII_T, \b111) * 8)),
                       Shl(U64(\b011), AndInt(ASCII_G, \b111) * 8)),
                       Shl(U64(\b100), AndInt(ASCII_N, \b111) * 8)))
        permute_mask == _mm256_set_epi32(6, 5, 4, 3, 3, 2, 1, 0)
        shuffle_mask1 == _mm256_set_epi16(-1, -1, -1, -1, \hFF1C, \hFF19, \hFF16, \hFF13,
                             -1, -1, -1, \hFF0C, \hFF09, \hFF06, \hFF03, \hFF00)
        shuffle_mask2 == _mm256_set_epi16(-1, -1, -1, -1, \hFF1D, \hFF1A, \hFF17, \hFF14,
                             -1, -1, -1, \hFF0D, \hFF0A, \hFF07, \hFF04, \hFF01)
        shuffle_mask3 == _mm256_set_epi16(-1, -1, -1, -1, \hFF1E, \hFF1B, \hFF18, \hFF15,
                             -1, -1, -1, \hFF0E, \hFF0B, \hFF08, \hFF05, \hFF02)
        mul25 == _mm256_set1_epi16(25)
        pack_right_mask == <<\h7F, 0, \h7F, 0, \h7F, 0, \h7F, 0>> \* 0x007F007F007F007F
        v0 == _mm256_loadu_si256(n, 27 * i, ub)
        v1 == _mm256_shuffle_epi8(lut, v0)
        v2 == _mm256_permutevar8x32_epi32(v1, permute_mask)
        a0 == _mm256_shuffle_epi8(v2, shuffle_mask1)
        b0 == _mm256_shuffle_epi8(v2, shuffle_mask2)
        c0 == _mm256_shuffle_epi8(v2, shuffle_mask3)
        b1 == _mm256_mullo_epi16(b0, mul5)
        c1 == _mm256_mullo_epi16(c0, mul25)
        ab == _mm256_add_epi16(a0, b1)
        arr == _mm256_add_epi16(ab, c1)
        a == _pext_u64(LaneOf(arr, 0), pack_right_mask)
        b == LaneOf(arr, 1)
        c == _pext_u64(LaneOf(arr, 2), pack_right_mask)
    IN  Store(Load(mem, n, 27 * i, 32), i, Or64(Or64(a, Shl(b, 28)), Shl(c, 36)))

\* the body of n_to_bits2_pext's loop
n_to_bits2_pext_step(n, i, mem, ub) ==
    LET lut == _mm256_set1_epi64x(
                   Or64(Or64(Or64(Or64(
                       Shl(U64(\b000), AndInt(ASCII_A, \b111) * 8),
                       Shl(U64(\b001), AndInt(ASCII_C, \b111) * 8)),
                       Shl(U64(\b010), AndInt(ASCII_T, \b111) * 8)),
                       Shl(U64(\b011), AndInt(ASCII_G, \b111) * 8)),
                       Shl(U64(\b100), AndInt(ASCII_N, \b111) * 8)))
        permute_mask == _mm256_set_epi32(6, 5, 4, 3, 3, 2, 1, 0)
        shuffle_mask1 == _mm256_set_epi16(-1, -1, -1, -1, \hFF1C, \hFF19, \hFF16, \hFF13,
                             -1, -1, -1, \hFF0C, \hFF09, \hFF06, \hFF03, \hFF00)
        shuffle_mask2 == _mm256_set_epi16(-1, -1, -1, -1, \hFF1D, \hFF1A, \hFF17, \hFF14,
                             -1, -1, -1, \hFF0D, \hFF0A, \hFF07, \hFF04, \hFF01)
        shuffle_mask3 == _mm256_set_epi16(-1, -1, -1, -1, \hFF1E, \hFF1B, \hFF18, \hFF15,
                             -1, -1, -1, \hFF0E, \hFF0B, \hFF08, \hFF05, \hFF02)
        mul25 == _mm256_set1_epi16(25)
        pack_right_mask == <<\h7F, 0, \h7F, 0, \h7F, 0, \h7F, 0>> \* 0x007F007F007F007F
        v0 == _mm256_loadu_si256(n, 27 * i, ub)
        v1 == _mm256_shuffle_epi8(lut, v0)
        v2 == _mm256_permutevar8x32_epi32(v1, permute_mask)
        a0 == _mm256_shuffle_epi8(v2, shuffle_mask1)
        b0 == _mm256_shuffle_epi8(v2, shuffle_mask2)
        c0 == _mm256_shuffle_epi8(v2, shuffle_mask3)
        b1 == _mm256_mullo_epi16(b0, mul5)
        c1 == _mm256_mullo_epi16(c0, mul25)
        ab == _mm256_add_epi16(a0, b1)
        arr == _mm256_add_epi16(ab, c1)
        a == _pext_u64(LaneOf(arr, 0), pack_right_mask)
        b == LaneOf(arr, 1)
        c == _pext_u64(LaneOf(arr, 2), pack_right_mask)
    IN  Store(Load(mem, n, 27 * i, 32), i, Or64(Or64(a, Shl(b, 28)), Shl(c, 35)))

\* for i in 0..end.len() { *res_ptr.offset((end_idx + i) as isize) = end[i] }
RECURSIVE n_to_bits2_pext_tail(_, _, _, _)
n_to_bits2_pext_tail(end, end_idx, i, mem) ==
    IF i >= Len(end) THEN mem
    ELSE n_to_bits2_pext_tail(end, end_idx, i + 1,
             Store(mem, end_idx + i, end[i + 1]))

\* for i in 0..end_idx
\* (each iteration's stores are made before the next iteration runs)
RECURSIVE n_to_bits2_pext_loop(_, _, _, _, _)
n_to_bits2_pext_loop(n, ub, end_idx, i, mem) ==
    IF i >= end_idx THEN mem
    ELSE LET stored == {n_to_bits2_pext_step(n, i, mem, ub)}
         IN  CHOOSE r \in {n_to_bits2_pext_loop(n, ub, end_idx, i + 1, m) : m \in stored} : TRUE

\* n_to_bits2_pext_end_idx counting every full block: n.len() / 27
n_to_bits2_pext_end_idx_full_blocks(n) == Len(n) \div 27

\* let end_idx = if n.len() < 5 {0} else {(n.len() - 5) / 27}: the number
\* of iterations of the vector loop
n_to_bits2_pext_end_idx(n) == IF Len(n) < 5 THEN 0 ELSE (Len(n) - 5) \div 27

\* &n[(end_idx * 27)..]: the slice handed to n_to_bits2_lut
n_to_bits2_pext_end(n) == SubSeq(n, n_to_bits2_pext_end_idx(n) * 27 + 1, Len(n))

\* if end_idx < len: the scalar encoder is called
n_to_bits2_pext_has_end(n) == n_to_bits2_pext_end_idx(n) < WordCount5(Len(n))

n_to_bits2_pext(n, ub) ==
    LET end_idx == n_to_bits2_pext_end_idx(n)
        len == WordCount5(Len(n))
        body == n_to_bits2_pext_loop(n, ub, end_idx, 0, Alloc(len))
    IN  IF n_to_bits2_pext_has_end(n)
        THEN n_to_bits2_pext_tail(n_to_bits2_lut(n_to_bits2_pext_end(n), ub),
                                  end_idx, 0, body)
        ELSE body

\* the nine 7-bit chunks of the word curr, each in a 16-bit lane of its own
\* (v_div1 in bits_to_n2_pdep): the lanes 0..3 and 8..12, the others are 0
v_div1(curr) ==
    LET deposit_mask == <<\h7F, \h7F, \h7F, \h7F, \h7F, \h7F, \h7F, \h7F>>
        shuffle_mask == _mm256_set_epi16(-1, -1, -1, \hFF04, \hFF03, \hFF02, \hFF01, \hFF00,
                            -1, -1, -1, -1, \hFF03, \hFF02, \hFF01, \hFF00)
        a == _pdep_u64(curr, deposit_mask)
        b == Or64(Shl(Sar(curr, 56), 32), Sar(a, 32))
        v0 == _mm256_set_epi64x(Zero64, b, Zero64, a)
    IN  _mm256_shuffle_epi8(v0, shuffle_mask)

\* let v_div5 = _mm256_mulhi_epu16(v_div1, div5)
v_div5(v) == _mm256_mulhi_epu16(v, div5)

\* let v_div25 = _mm256_mulhi_epu16(v_div1, div25)
v_div25(v) == _mm256_mulhi_epu16(v, div25)

\* let a = _mm256_sub_epi16(v_div1, _mm256_mullo_epi16(v_div5, mul5))
digit_a(v) == _mm256_sub_epi16(v, _mm256_mullo_epi16(v_div5(v), mul5))

\* let b = _mm256_sub_epi16(v_div5, _mm256_mullo_epi16(v_div25, mul5))
digit_b(v) == _mm256_sub_epi16(v_div5(v), _mm256_mullo_epi16(v_div25(v), mul5))

\* let c = v_div25
digit_c(v) == v_div25(v)

\* the body of bits_to_n2_pdep's loop
bits_to_n2_pdep_step(bits, i, mem) ==
    LET \* 0xFFFF0908FF0706FF and 0x0504FF0302FF0100, least significant byte first
        ab_hi == <<\hFF, \h06, \h07, \hFF, \h08, \h09, \hFF, \hFF>>
        ab_lo == <<\h00, \h01, \hFF, \h02, \h03, \hFF, \h04, \h05>>
        ab_shuffle_mask == _mm256_set_epi64x(ab_hi, ab_lo, ab_hi, ab_lo)
        \* 0xFF08FFFF06FFFF04 and 0xFFFF02FFFF00FFFF
        c_hi == <<\h04, \hFF, \hFF, \h06, \hFF, \hFF, \h08, \hFF>>
        c_lo == <<\hFF, \hFF, \h00, \hFF, \hFF, \h02, \hFF, \hFF>>
        c_shuffle_mask == _mm256_set_epi64x(c_hi, c_lo, c_hi, c_lo)
        permute_mask == _mm256_set_epi32(7, 7, 6, 5, 4, 2, 1, 0)
        lut == _mm256_set1_epi64x(
                   Or64(Or64(Or64(Or64(
                       Shl(U64(ASCII_A), 0),
                       Shl(U64(ASCII_C), 8)),
                       Shl(U64(ASCII_T), 16)),
                       Shl(U64(ASCII_G), 24)),
                       Shl(U64(ASCII_N), 32)))
        v1 == v_div1(bits[i + 1])
        a1 == digit_a(v1)
        b1 == digit_b(v1)
        c1 == digit_c(v1)
        b2 == _mm256_slli_epi16(b1, 8)
        ab == _mm256_or_si256(a1, b2)
        ab1 == _mm256_shuffle_epi8(ab, ab_shuffle_mask)
        c2 == _mm256_shuffle_epi8(c1, c_shuffle_mask)
        abc == _mm256_or_si256(ab1, c2)
        v2 == _mm256_permutevar8x32_epi32(abc, permute_mask)
        v3 == _mm256_shuffle_epi8(lut, v2)
    IN  StoreVec(Load(mem, bits, i, 1), 27 * i, v3)

\* for i in 0..bits.len()
\* (each iteration's stores are made before the next iteration runs)
RECURSIVE bits_to_n2_pdep_loop(_, _, _)
bits_to_n2_pdep_loop(bits, i, mem) ==
    IF i >= Len(bits) THEN mem
    ELSE LET stored == {bits_to_n2_pdep_step(bits, i, mem)}
         IN  CHOOSE r \in {bits_to_n2_pdep_loop(bits, i + 1, m) : m \in stored} : TRUE

\* bits_to_n2_pdep with an allocation of bits.len() * 27 bytes
bits_to_n2_pdep_no_slack(bits, len) ==
    IF len > Len(bits) * 27 THEN Panic
    ELSE FromRawParts(bits_to_n2_pdep_loop(bits, 0, Alloc(Len(bits) * 27)),
                      len, Len(bits) * 27 + 5)

bits_to_n2_pdep(bits, len) ==
    IF len > Len(bits) * 27 THEN Panic
    ELSE FromRawParts(bits_to_n2_pdep_loop(bits, 0, Alloc(Len(bits) * 27 + 5)),
                      len, Len(bits) * 27 + 5)

(***************************************************************************)
(* The caller.                                                             *)
(***************************************************************************)
VARIABLES
    n,      \* the symbol buffer handed to the encoders
    bits,   \* the packed buffer: arbitrary words, or the last encoder's Vec
    src,    \* where bits comes from: "raw", or the encoder that returned it
    op,     \* the function called last ("start" before the first call)
    len,    \* the length the last decoder was asked for
    ret,    \* what the last decoder returned (see FromRawParts and Panic)
    oob,    \* the last call wrote outside the buffer it allocated
    path,   \* how the last encoder split n: the number of blocks of the
            \* vector loop, whether the scalar encoder was called, and the
            \* slice it was called with
    rd_oob, \* the last call read outside its input buffer
    lut_oob \* the last encoder indexed BYTE_LUT past its 128 entries

vars == <<n, bits, src, op, len, ret, oob, path, rd_oob, lut_oob>>

\* the symbol buffers: repeated patterns, as in the tests ("ATCG", "ATCGN"),
\* patterns with lowercase letters, and patterns of other bytes: below 128
\* only, and of any value
Patterns == <<
    <<ASCII_A, ASCII_T, ASCII_C, ASCII_G>>,
    <<ASCII_A, ASCII_T, ASCII_C, ASCII_G, ASCII_N>>,
    <<ASCII_G, ASCII_A, ASCII_T, ASCII_T, ASCII_A, ASCII_C, ASCII_A>>,
    <<ASCII_N, ASCII_G, ASCII_T, ASCII_N, ASCII_C, ASCII_N, ASCII_A>>,
    <<ASCII_a, ASCII_t, ASCII_c, ASCII_g, ASCII_A>>,
    <<ASCII_n, ASCII_g, ASCII_T, ASCII_n, ASCII_c, ASCII_a, ASCII_t>>,
    <<0, 64, ASCII_N, 127, ASCII_C, 91, 32>>,
    <<ASCII_G, 200, 255, ASCII_t, 128, 0, ASCII_N>> >>

Repeat(p, l) == [i \in 1..l |-> p[((i - 1) % Len(p)) + 1]]

SymbolInputs == {Repeat(Patterns[p], l) : p \in 1..Len(Patterns), l \in 0..MaxLen}

\* packed buffers of arbitrary bit patterns: byte j of word w is
\* (seed + 29 * (8 * w + j)) mod 256
RawSeeds == {\h1B, \hB1, \hFF}

RawWord(seed, w) ==
    Bytes64([j \in 0..7 |-> (seed + 29 * (8 * w + j)) % 256])

\* packed buffers of Codec-5 fields: field f of word w is
\* (seed + 29 * (9 * w + f)) mod 125, bit 63 is clear; the fields of the
\* two-word buffers of the seven seeds are all the values 0..124
FieldSeeds == {0, 22, 44, 66, 88, 110, 7}

FieldWord(seed, w) ==
    Bits64([k \in 0..63 |-> IF k = 63 THEN 0
                            ELSE (((seed + 29 * (9 * w + (k \div 7))) % 125)
                                      \div (2^(k % 7))) % 2])

RawInputs ==
    {SubSeq([w \in 1..c |-> RawWord(seed, w - 1)], 1, c) :
        seed \in RawSeeds, c \in 1..MaxRawWords}
    \cup
    {SubSeq([w \in 1..c |-> FieldWord(seed, w - 1)], 1, c) :
        seed \in FieldSeeds, c \in 1..MaxRawWords}

\* the lengths a decoder is asked for, given the capacity of bits: every
\* length up to one past the capacity for a raw buffer; for an encoder's
\* output the length of the encoded buffer and one past the capacity
ReqLens(capacity) ==
    IF src = "raw" THEN 0..(capacity + 1)
    ELSE {Len(n), capacity + 1}

NoRet ==
    [panicked |-> FALSE, allocs |-> 0, size |-> 0, vec |-> <<>>, cap |-> 0,
     oob |-> FALSE, rd |-> FALSE]

\* no encoder called yet
NoPath == [blocks |-> 0, scalar |-> FALSE, end |-> <<>>]

\* a scalar encoder: no vector loop, the whole of n
ScalarPath == [blocks |-> 0, scalar |-> TRUE, end |-> n]

Init ==
    /\ \/ n \in SymbolInputs /\ bits = <<>>
       \/ n = <<>> /\ bits \in RawInputs
    /\ src = "raw"
    /\ op = "start"
    /\ len = 0
    /\ ret = NoRet
    /\ oob = FALSE
    /\ path = NoPath
    /\ rd_oob = FALSE
    /\ lut_oob = FALSE

Encoders ==
    {"n_to_bits_lut", "n_to_bits_pext", "n_to_bits_mul",
     "n_to_bits2_lut", "n_to_bits2_pext"}

\* the bytes tried for a read past the end of a table or of a buffer
OobBytes == {0, ASCII_G, 255}

Call_n_to_bits_lut ==
    /\ op = "start"
    /\ \E ub \in OobBytes : bits' = n_to_bits_lut(n, ub)
    /\ rd_oob' = FALSE
    /\ lut_oob' = PastByteLut(n)
    /\ src' = "n_to_bits_lut"
    /\ op' = "n_to_bits_lut"
    /\ path' = ScalarPath
    /\ oob' = FALSE
    /\ UNCHANGED <<n, len, ret>>

Call_n_to_bits_pext ==
    /\ op = "start"
    /\ \E ub \in OobBytes :
          LET r == n_to_bits_pext(n, ub)
          IN  bits' = r.cells /\ oob' = r.oob /\ rd_oob' = r.rd
    /\ lut_oob' = PastByteLut(Path4(n).end)
    /\ src' = "n_to_bits_pext"
    /\ op' = "n_to_bits_pext"
    /\ path' = Path4(n)
    /\ UNCHANGED <<n, len, ret>>

Call_n_to_bits_mul ==
    /\ op = "start"
    /\ \E ub \in OobBytes :
          LET r == n_to_bits_mul(n, ub)
          IN  bits' = r.cells /\ oob' = r.oob /\ rd_oob' = r.rd
    /\ lut_oob' = PastByteLut(Path4(n).end)
    /\ src' = "n_to_bits_mul"
    /\ op' = "n_to_bits_mul"
    /\ path' = Path4(n)
    /\ UNCHANGED <<n, len, ret>>

Call_bits_to_n_lut ==
    /\ op \in Encoders \cup {"start"}
    /\ \E l \in ReqLens(Len(bits) * 32) :
          /\ len' = l
          /\ ret' = bits_to_n_lut(bits, l)
    /\ op' = "bits_to_n_lut"
    /\ oob' = ret'.oob
    /\ rd_oob' = ret'.rd
    /\ UNCHANGED <<n, bits, src, path, lut_oob>>

Call_bits_to_n_shuffle ==
    /\ op \in Encoders \cup {"start"}
    /\ \E l \in ReqLens(Len(bits) * 32) :
          /\ len' = l
          /\ ret' = bits_to_n_shuffle(bits, l)
    /\ op' = "bits_to_n_shuffle"
    /\ oob' = ret'.oob
    /\ rd_oob' = ret'.rd
    /\ UNCHANGED <<n, bits, src, path, lut_oob>>

Call_bits_to_n_pdep ==
    /\ op \in Encoders \cup {"start"}
    /\ \E l \in ReqLens(Len(bits) * 32) :
          /\ len' = l
          /\ ret' = bits_to_n_pdep(bits, l)
    /\ op' = "bits_to_n_pdep"
    /\ oob' = ret'.oob
    /\ rd_oob' = ret'.rd
    /\ UNCHANGED <<n, bits, src, path, lut_oob>>

Call_bits_to_n_clmul ==
    /\ op \in Encoders \cup {"start"}
    /\ \E l \in ReqLens(Len(bits) * 32) :
          /\ len' = l
          /\ ret' = bits_to_n_clmul(bits, l)
    /\ op' = "bits_to_n_clmul"
    /\ oob' = ret'.oob
    /\ rd_oob' = ret'.rd
    /\ UNCHANGED <<n, bits, src, path, lut_oob>>

Call_n_to_bits2_lut ==
    /\ op = "start"
    /\ \E ub \in OobBytes : bits' = n_to_bits2_lut(n, ub)
    /\ rd_oob' = FALSE
    /\ lut_oob' = PastByteLut(n)
    /\ src' = "n_to_bits2_lut"
    /\ op' = "n_to_bits2_lut"
    /\ path' = ScalarPath
    /\ oob' = FALSE
    /\ UNCHANGED <<n, len, ret>>

Call_n_to_bits2_pext ==
    /\ op = "start"
    /\ \E ub \in OobBytes :
          LET r == n_to_bits2_pext(n, ub)
          IN  bits' = r.cells /\ oob' = r.oob /\ rd_oob' = r.rd
    /\ lut_oob' = PastByteLut(IF n_to_bits2_pext_has_end(n)
                              THEN n_to_bits2_pext_end(n) ELSE <<>>)
    /\ src' = "n_to_bits2_pext"
    /\ op' = "n_to_bits2_pext"
    /\ path' = [blocks |-> n_to_bits2_pext_end_idx(n),
                scalar |-> n_to_bits2_pext_has_end(n),
                end |-> IF n_to_bits2_pext_has_end(n)
                        THEN n_to_bits2_pext_end(n) ELSE <<>>]
    /\ UNCHANGED <<n, len, ret>>

Call_bits_to_n2_lut ==
    /\ op \in Encoders \cup {"start"}
    /\ \E l \in ReqLens(Len(bits) * 27), ub \in OobBytes :
          /\ len' = l
          /\ ret' = bits_to_n2_lut(bits, l, ub)
    /\ op' = "bits_to_n2_lut"
    /\ oob' = ret'.oob
    /\ rd_oob' = ret'.rd
    /\ UNCHANGED <<n, bits, src, path, lut_oob>>

Call_bits_to_n2_pdep ==
    /\ op \in Encoders \cup {"start"}
    /\ \E l \in ReqLens(Len(bits) * 27) :
          /\ len' = l
          /\ ret' = bits_to_n2_pdep(bits, l)
    /\ op' = "bits_to_n2_pdep"
    /\ oob' = ret'.oob
    /\ rd_oob' = ret'.rd
    /\ UNCHANGED <<n, bits, src, path, lut_oob>>

Next ==
    \/ Call_n_to_bits_lut
    \/ Call_n_to_bits_pext
    \/ Call_n_to_bits_mul
    \/ Call_bits_to_n_lut
    \/ Call_bits_to_n_shuffle
    \/ Call_bits_to_n_pdep
    \/ Call_bits_to_n_clmul
    \/ Call_n_to_bits2_lut
    \/ Call_n_to_bits2_pext
    \/ Call_bits_to_n2_lut
    \/ Call_bits_to_n2_pdep

Spec == Init /\ [][Next]_vars

(***************************************************************************)
(* The properties.                                                         *)
(***************************************************************************)
IsOver(s, alphabet) == \A i \in 1..Len(s) : s[i] \in alphabet

ACGT == {ASCII_A, ASCII_C, ASCII_G, ASCII_T}

ACGTN == ACGT \cup {ASCII_N}

Decoders4 ==
    {"bits_to_n_lut", "bits_to_n_shuffle", "bits_to_n_pdep", "bits_to_n_clmul"}

Decoders5 == {"bits_to_n2_lut", "bits_to_n2_pdep"}

\* the number of symbols the packed buffer can hold for the decoder called
Capacity == IF op \in Decoders4 THEN 32 * Len(bits) ELSE 27 * Len(bits)

CeilDiv(a, b) == (a + b - 1) \div b

\* the nb-bit field of the word w that starts at bit from
FieldAt(w, from, nb) ==
    LET RECURSIVE Sum(_)
        Sum(k) == IF k = nb THEN 0 ELSE Bit(w, from + k) * (2^k) + Sum(k + 1)
    IN  Sum(0)

\* the symbol codes as the layouts state them
Code(c) ==
    CASE c = ASCII_A -> 0
      [] c = ASCII_C -> 1
      [] c = ASCII_T -> 2
      [] c = ASCII_G -> 3
      [] c = ASCII_N -> 4

\* the code of the symbol at position p (from 0) of s, 0 past its end
CodeAt(s, p) == IF p < Len(s) THEN Code(s[p + 1]) ELSE 0

\* every 7-bit field of every word is in 0..124 and bit 63 is clear
ValidWords5(w) ==
    \A j \in 1..Len(w) :
        /\ Bit(w[j], 63) = 0
        /\ \A f \in 0..8 : FieldAt(w[j], 7 * f, 7) <= 124

\* C1: Codec-4 round trip: for every sequence s over {A,C,G,T}, of any
\* length n >= 0, bits_to_n_lut(n_to_bits_lut(s), n) returns exactly s.
C1_RoundTrip4 ==
    (op = "bits_to_n_lut" /\ src = "n_to_bits_lut" /\ len = Len(n)
        /\ IsOver(n, ACGT))
    => (~ret.panicked /\ ret.vec = n)

\* a round trip of 65 symbols: two full words and one more symbol
C1_Witness ==
    /\ op = "bits_to_n_lut" /\ src = "n_to_bits_lut"
    /\ IsOver(n, ACGT) /\ Len(n) = 65 /\ len = 65
    /\ ret.vec = n

\* C2: Codec-5 round trip: for every sequence s over {A,C,G,T,N}, of any
\* length n >= 0, also one that is not a multiple of 3 or that crosses a
\* 27-symbol word boundary, bits_to_n2_lut(n_to_bits2_lut(s), n) returns
\* exactly s.
C2_RoundTrip5 ==
    (op = "bits_to_n2_lut" /\ src = "n_to_bits2_lut" /\ len = Len(n)
        /\ IsOver(n, ACGTN))
    => (~ret.panicked /\ ret.vec = n)

\* a round trip of 29 symbols with an N among them: past the first word,
\* with a final triplet of two symbols
C2_Witness ==
    /\ op = "bits_to_n2_lut" /\ src = "n_to_bits2_lut"
    /\ IsOver(n, ACGTN) /\ ~IsOver(n, ACGT)
    /\ Len(n) = 29 /\ len = 29 /\ Len(bits) = 2
    /\ ret.vec = n

\* C3: Codec-4 encode equivalence: for every sequence s over {A,C,G,T} of
\* every length, n_to_bits_pext(s) and n_to_bits_mul(s) each return the
\* word sequence n_to_bits_lut(s) returns.
C3_Encode4 ==
    (op \in {"n_to_bits_pext", "n_to_bits_mul"} /\ IsOver(n, ACGT))
    => bits = n_to_bits_lut(n, 0)

\* n_to_bits_mul on 63 symbols: one block of 32 and a tail of 31
C3_Witness ==
    /\ op = "n_to_bits_mul" /\ IsOver(n, ACGT) /\ Len(n) = 63
    /\ Len(bits) = 2 /\ bits = n_to_bits_lut(n, 0)

\* C4: Codec-4 decode equivalence: for every sequence of words w, of any
\* bit pattern, and every len with 0 <= len <= 32 * |w|, bits_to_n_shuffle,
\* bits_to_n_pdep and bits_to_n_clmul each return the byte sequence
\* bits_to_n_lut(w, len) returns.
C4_Decode4 ==
    (op \in {"bits_to_n_shuffle", "bits_to_n_pdep", "bits_to_n_clmul"}
        /\ len <= 32 * Len(bits))
    => (~ret.panicked /\ ret.vec = bits_to_n_lut(bits, len).vec)

\* bits_to_n_clmul asked for 37 symbols of two arbitrary words
C4_Witness ==
    /\ op = "bits_to_n_clmul" /\ src = "raw" /\ Len(bits) = 2 /\ len = 37
    /\ Len(ret.vec) = 37
    /\ {ret.vec[i] : i \in 1..37} = ACGT

\* C5: Codec-5 encode equivalence: for every sequence s over {A,C,G,T,N}
\* of every length, n_to_bits2_pext(s) returns the word sequence
\* n_to_bits2_lut(s) returns.
C5_Encode5 ==
    (op = "n_to_bits2_pext" /\ IsOver(n, ACGTN)) => bits = n_to_bits2_lut(n, 0)

\* n_to_bits2_pext on 59 symbols: two blocks of 27 and a tail of 5
C5_Witness ==
    /\ op = "n_to_bits2_pext" /\ IsOver(n, ACGTN) /\ ~IsOver(n, ACGT)
    /\ Len(n) = 59 /\ Len(bits) = 3 /\ bits = n_to_bits2_lut(n, 0)

\* C6: Codec-5 decode equivalence: for every word sequence w whose 7-bit
\* fields are all in 0..124 and whose bits 63 are clear, and every len with
\* 0 <= len <= 27 * |w|, bits_to_n2_pdep(w, len) returns the byte sequence
\* bits_to_n2_lut(w, len) returns.
C6_Decode5 ==
    (op = "bits_to_n2_pdep" /\ ValidWords5(bits) /\ len <= 27 * Len(bits))
    => (~ret.panicked /\ ret.vec = bits_to_n2_lut(bits, len, 0).vec)

\* bits_to_n2_pdep asked for 40 symbols of two words of fields up to 124
C6_Witness ==
    /\ op = "bits_to_n2_pdep" /\ src = "raw" /\ ValidWords5(bits)
    /\ Len(bits) = 2 /\ len = 40 /\ Len(ret.vec) = 40
    /\ \E f \in 0..8 : FieldAt(bits[1], 7 * f, 7) = 124

\* C7: LengthError: each of the six decoders fails when the requested
\* length is greater than the capacity (32 * |w| for Codec-4, 27 * |w| for
\* Codec-5), it fails before it allocates or writes an output buffer, and
\* a requested length equal to the capacity does not fail.
C7_LengthError ==
    op \in Decoders4 \cup Decoders5
    => /\ len > Capacity
            => (ret.panicked /\ ret.allocs = 0 /\ ret.size = 0
                    /\ ret.vec = <<>> /\ ~ret.oob)
       /\ len = Capacity => (~ret.panicked /\ Len(ret.vec) = len)

\* bits_to_n2_pdep asked for 55 symbols of two words
C7_Witness ==
    /\ op = "bits_to_n2_pdep" /\ Len(bits) = 2 /\ len = 55
    /\ ret.panicked /\ ret.allocs = 0

\* C8: Codec-4 bit layout: for every sequence s of length n over {A,C,G,T},
\* n_to_bits_lut(s) has exactly ceil(n/32) words, the two bits at 2*(i mod 32)
\* and 2*(i mod 32)+1 of word i div 32 hold the code of s[i] (A=00, C=01,
\* T=10, G=11) for every i < n, and every other bit is 0.
C8_Layout4 ==
    (op = "n_to_bits_lut" /\ IsOver(n, ACGT))
    => /\ Len(bits) = CeilDiv(Len(n), 32)
       /\ \A w \in 1..Len(bits), k \in 0..31 :
             FieldAt(bits[w], 2 * k, 2) = CodeAt(n, 32 * (w - 1) + k)

\* 36 symbols in two words, the second one the word of "ATCG"
C8_Witness ==
    /\ op = "n_to_bits_lut" /\ IsOver(n, ACGT) /\ Len(n) = 36
    /\ Len(bits) = 2 /\ n[36] = ASCII_G
    /\ bits[2] = U64(\b11011000)

\* C9: Codec-5 field layout: for every sequence s of length n over
\* {A,C,G,T,N}, n_to_bits2_lut(s) has exactly ceil(n/27) words, the 7-bit
\* field at bit 7*(t mod 9) of word t div 9 is
\* code(s[3t]) + 5*code(s[3t+1]) + 25*code(s[3t+2]) for every triplet
\* t < ceil(n/3) (A=0, C=1, T=2, G=3, N=4, and 0 for a position >= n), and
\* every other bit, bit 63 of every word among them, is 0.
C9_Layout5 ==
    (op = "n_to_bits2_lut" /\ IsOver(n, ACGTN))
    => /\ Len(bits) = CeilDiv(Len(n), 27)
       /\ \A w \in 1..Len(bits) :
             /\ Bit(bits[w], 63) = 0
             /\ \A f \in 0..8 :
                   LET t == 9 * (w - 1) + f
                   IN  FieldAt(bits[w], 7 * f, 7) =
                           CodeAt(n, 3 * t) + 5 * CodeAt(n, 3 * t + 1)
                               + 25 * CodeAt(n, 3 * t + 2)

\* 29 symbols in two words, the last triplet one of two symbols
C9_Witness ==
    /\ op = "n_to_bits2_lut" /\ IsOver(n, ACGTN) /\ ~IsOver(n, ACGT)
    /\ Len(n) = 29 /\ Len(bits) = 2
    /\ FieldAt(bits[2], 0, 7) = Code(n[28]) + 5 * Code(n[29])
    /\ FieldAt(bits[2], 0, 7) > 0

\* C10 as stated: every decoder allocates the returned buffer with a size
\* equal to the requested length len, not 32 * |w| or 27 * |w|.
C10_ExactSize ==
    (op \in Decoders4 \cup Decoders5 /\ ~ret.panicked)
    => (ret.size = len /\ ret.cap = len)

\* C10, amended: every decoder returns a buffer of exactly len symbols; its
\* allocation, which is also its capacity, has the size len in bits_to_n_lut
\* only, and the size 32 * |w| in bits_to_n_shuffle, bits_to_n_pdep and
\* bits_to_n_clmul, 27 * |w| in bits_to_n2_lut and 27 * |w| + 5 in
\* bits_to_n2_pdep.
C10_AllocSize ==
    (op \in Decoders4 \cup Decoders5 /\ ~ret.panicked)
    => /\ Len(ret.vec) = len
       /\ ret.allocs = 1
       /\ ret.cap = ret.size
       /\ ret.size =
            CASE op = "bits_to_n_lut" -> len
              [] op \in {"bits_to_n_shuffle", "bits_to_n_pdep", "bits_to_n_clmul"}
                    -> 32 * Len(bits)
              [] op = "bits_to_n2_lut" -> 27 * Len(bits)
              [] op = "bits_to_n2_pdep" -> 27 * Len(bits) + 5

\* bits_to_n_shuffle asked for 33 symbols of two words: 64 bytes allocated
C10_Witness ==
    /\ op = "bits_to_n_shuffle" /\ Len(bits) = 2 /\ len = 33
    /\ Len(ret.vec) = 33 /\ ret.size = 64

\* the lowercase letters of the two alphabets
acgt == {ASCII_a, ASCII_c, ASCII_g, ASCII_t}

acgtn == acgt \cup {ASCII_n}

\* the uppercase form of a sequence of letters
Upper(s) == [i \in 1..Len(s) |-> IF s[i] \in acgtn THEN s[i] - 32 ELSE s[i]]

\* the words the encoder f returns for the symbol buffer s, a sequence of
\* letters (no byte of s is past a table, so no read yields the byte 0 given)
Encode(f, s) ==
    CASE f = "n_to_bits_lut" -> n_to_bits_lut(s, 0)
      [] f = "n_to_bits_pext" -> n_to_bits_pext(s, 0).cells
      [] f = "n_to_bits_mul" -> n_to_bits_mul(s, 0).cells
      [] f = "n_to_bits2_lut" -> n_to_bits2_lut(s, 0)
      [] f = "n_to_bits2_pext" -> n_to_bits2_pext(s, 0).cells

\* C11: case-insensitive encoding.  For every sequence of alphabet letters
\* in either case, each encoder returns for it the words it returns for
\* its uppercase form: n_to_bits_lut, n_to_bits_pext and n_to_bits_mul over
\* a/c/g/t/A/C/G/T, n_to_bits2_lut and n_to_bits2_pext over those and n/N.
C11_CaseInsensitive ==
    /\ (op \in {"n_to_bits_lut", "n_to_bits_pext", "n_to_bits_mul"}
            /\ IsOver(n, ACGT \cup acgt))
        => bits = Encode(op, Upper(n))
    /\ (op \in {"n_to_bits2_lut", "n_to_bits2_pext"}
            /\ IsOver(n, ACGTN \cup acgtn))
        => bits = Encode(op, Upper(n))

\* n_to_bits2_pext has encoded 59 letters, lowercase n and uppercase T among
\* them, on the vector path and the scalar tail
C11_Witness ==
    /\ op = "n_to_bits2_pext"
    /\ Len(n) = 59
    /\ IsOver(n, ACGTN \cup acgtn)
    /\ \E i \in 1..27 : n[i] = ASCII_n
    /\ \E i \in 55..59 : n[i] \in acgtn
    /\ \E i \in 1..59 : n[i] = ASCII_T
    /\ Len(bits) = 3

\* C12 as the specification states it: n_to_bits2_pext runs the vector loop
\* on every full 27-symbol block and hands n_to_bits2_lut only the Len(n) mod
\* 27 symbols left over, fewer than 27
C12_TailShorterThan27 ==
    op = "n_to_bits2_pext" =>
        /\ path.blocks = Len(n) \div 27
        /\ Len(path.end) = Len(n) % 27
        /\ Len(path.end) < 27

\* C12: the tail policy of n_to_bits2_pext.  With L = Len(n), the vector
\* loop runs on the first (L - 5) div 27 blocks (none when L < 5): on every
\* full 27-symbol block, except the last one when fewer than 5 symbols
\* follow it.  n_to_bits2_lut is called whenever L > 0, with all the symbols
\* after those blocks: the whole input when L < 32, and otherwise L mod 27
\* symbols when L mod 27 >= 5 and 27 + L mod 27 symbols when L mod 27 < 5,
\* so 5..31 symbols whenever L >= 5.
C12_TailPolicy ==
    op = "n_to_bits2_pext" =>
        LET L == Len(n)
        IN  /\ path.blocks = IF L >= 27 /\ L % 27 < 5
                              THEN (L \div 27) - 1 ELSE L \div 27
            /\ path.scalar = (L > 0)
            /\ path.end = SubSeq(n, 27 * path.blocks + 1, L)
            /\ L < 32 => path.end = n
            /\ L >= 32 => Len(path.end) = IF L % 27 >= 5 THEN L % 27
                                          ELSE 27 + (L % 27)
            /\ L >= 5 => Len(path.end) \in 5..31

\* n_to_bits2_pext has encoded 56 symbols: one block on the vector path and
\* the other 29 symbols, more than a block, by n_to_bits2_lut
C12_Witness ==
    /\ op = "n_to_bits2_pext"
    /\ Len(n) = 56
    /\ path.blocks = 1
    /\ path.scalar
    /\ Len(path.end) = 29
    /\ Len(bits) = 3

\* the operations that read or write through raw pointers
RawPointerOps ==
    {"n_to_bits_pext", "n_to_bits_mul", "n_to_bits2_pext",
     "bits_to_n_lut", "bits_to_n_shuffle", "bits_to_n_pdep", "bits_to_n_clmul",
     "bits_to_n2_lut", "bits_to_n2_pdep"}

Letters(f) ==
    IF f = "n_to_bits_lut" THEN ACGT \cup acgt ELSE ACGTN \cup acgtn

\* the slice s with 'A' for every byte that is not a letter of f
UnrecognizedAsA(f, s) ==
    [i \in 1..Len(s) |-> IF s[i] \in Letters(f) THEN s[i] ELSE ASCII_A]

\* C14: unrecognized bytes in the scalar encoders.  For every byte content
\* (0..255), n_to_bits_lut and n_to_bits2_lut never index BYTE_LUT outside
\* the table, and encode every byte that is not a letter as code 0, the
\* code of 'A'.
C14_UnrecognizedAsCode0 ==
    op \in {"n_to_bits_lut", "n_to_bits2_lut"} =>
        /\ ~lut_oob
        /\ bits = Encode(op, UnrecognizedAsA(op, n))

\* n_to_bits_lut was called with a buffer that holds the byte 200: the
\* index 200 is past the 128 entries of BYTE_LUT, and the word returned
\* depends on the byte that lies there (not code 0 when that byte is 255)
C14_Witness ==
    /\ op = "n_to_bits_lut"
    /\ Len(n) = 2
    /\ n[2] = 200
    /\ lut_oob
    /\ bits # Encode(op, UnrecognizedAsA(op, n))

\* C14 for the bytes below 128: with no byte of n above 127 the two scalar
\* encoders stay inside BYTE_LUT and encode every byte that is not a letter
\* as code 0
C14_InTable ==
    (op \in {"n_to_bits_lut", "n_to_bits2_lut"}
        /\ \A i \in 1..Len(n) : n[i] < 128) =>
        /\ ~lut_oob
        /\ bits = Encode(op, UnrecognizedAsA(op, n))

\* C15: the fixed-point reciprocal division of bits_to_n2_pdep.  For every
\* 7-bit field value x in 0..124 of a decoded word, in its 16-bit lane:
\* the reciprocals are 13108 and 2622; the high half of x * 13108 is
\* x div 5 and the high half of x * 2622 is x div 25; the products
\* 5 * (x div 5) and 5 * (x div 25) and the two differences are the exact
\* integers (no 16-bit overflow or underflow); and the three digits are
\* x mod 5, (x div 5) mod 5 and x div 25, as bits_to_n2_lut computes them.
\* Every field of the word is one of the lanes.
C15_ReciprocalDivision ==
    (op = "bits_to_n2_pdep" /\ ~ret.panicked) =>
        \A w \in 1..Len(bits) :
            LET v == v_div1(bits[w])
                q5 == v_div5(v)
                q25 == v_div25(v)
                p5 == _mm256_mullo_epi16(q5, mul5)
                p25 == _mm256_mullo_epi16(q25, mul5)
                da == digit_a(v)
                db == digit_b(v)
                dc == digit_c(v)
            IN  /\ \A e \in 0..15 :
                       LET x == Lane16(v, e)
                       IN  x <= 124 =>
                           /\ Lane16(div5, e) = 13108
                           /\ Lane16(div25, e) = 2622
                           /\ (x * 13108) \div 65536 = x \div 5
                           /\ (x * 2622) \div 65536 = x \div 25
                           /\ Lane16(q5, e) = x \div 5
                           /\ Lane16(q25, e) = x \div 25
                           /\ Lane16(p5, e) = 5 * (x \div 5)
                           /\ Lane16(p25, e) = 5 * (x \div 25)
                           /\ Lane16(da, e) = x - 5 * (x \div 5)
                           /\ Lane16(da, e) = x % 5
                           /\ Lane16(db, e) = (x \div 5) - 5 * (x \div 25)
                           /\ Lane16(db, e) = (x \div 5) % 5
                           /\ Lane16(dc, e) = x \div 25
                /\ Bit(bits[w], 63) = 0 =>
                       \A f \in 0..8 :
                           \E e \in 0..15 :
                               Lane16(v, e) = FieldAt(bits[w], 7 * f, 7)

\* bits_to_n2_pdep has decoded two words of fields in 0..124, the largest
\* value 124 (digits 4, 4, 4), a multiple of 25 and a value just below a
\* multiple of 5 among them
C15_Witness ==
    /\ op = "bits_to_n2_pdep" /\ ~ret.panicked
    /\ src = "raw" /\ ValidWords5(bits) /\ Len(bits) = 2 /\ len = 54
    /\ \E f \in 0..8 : FieldAt(bits[1], 7 * f, 7) = 124
    /\ \E w \in 1..2, f \in 0..8 :
           LET x == FieldAt(bits[w], 7 * f, 7) IN x > 0 /\ x % 25 = 0
    /\ \E w \in 1..2, f \in 0..8 : FieldAt(bits[w], 7 * f, 7) % 5 = 4
    /\ \E i \in 1..54 : ret.vec[i] = ASCII_N

====
